---- MODULE Spec2Model ----
(***************************************************************************)
(* Model of the MCP Teams connector:                                       *)
(*   - GraphAuthProvider (src/src/auth/GraphAuthProvider.ts): the token    *)
(*     lifecycle, the redirect listener of the interactive login, the     *)
(*     cache plugin and the admission checks;                              *)
(*   - MCPTeamsServer (src/src/index.ts): start-up ordering and the tool   *)
(*     dispatch handler;                                                   *)
(*   - CalendarTools.findMeetingSlots / isTimeFree (CalendarTools.ts): the *)
(*     availability resolver.                                              *)
(*                                                                         *)
(* Seven specifications share the variables:                                *)
(*   Spec          the provider object driven through its public methods   *)
(*   SpecLogin     authenticate() called again while calls are pending     *)
(*   SpecSession   authenticate(), token requests and signOut(), with      *)
(*                 authenticate() called again after a call has settled    *)
(*   SpecRetry     authenticate() called again after a call has settled,   *)
(*                 with the fairness of a live process                     *)
(*   SpecServer    one process run of MCPTeamsServer after another         *)
(*   SpecResolver  findMeetingSlots, one loop iteration per step           *)
(*   SpecResolverRun  the same, run to its return                          *)
(***************************************************************************)
EXTENDS Integers, Sequences, FiniteSets, TLC

VARIABLES
    \* ---- GraphAuthProvider ----
    currentAccount, \* this.currentAccount: an account or NoAccount
    graphClient,    \* this.graphClient is set
    handedOut,      \* a Graph client has been returned to a caller
    memCache,       \* the identity library's in-memory cache: accounts, in order
    cacheFile,      \* .cache/tokens.json: Absent or the serialized accounts
    call,           \* per authenticate() call: its position
    listener,       \* per call: the express server of its interactive login
    urlStep,        \* per call: the app.listen callback (auth URL, browser)
    timer,          \* per call: the 5-minute setTimeout
    inflight,       \* per call: redirect handlers awaiting acquireTokenByCode
    signout,        \* position of the signOut() call in progress
    silentReq,      \* per caller of acquireTokenSilent: the account of its request in flight
    ret,            \* the last result delivered to a caller: [op, val, acct, ...]
    proc,           \* "running" | "exit0" | "exit1" | "crashed"
    \* ---- MCPTeamsServer ----
    spc,            \* position of start(): "off" | "new" | "auth" | "ready"
    tools,          \* calendarTools and teamsTools are constructed
    connected,      \* server.connect(transport) was called
    isValidTenant,  \* start()'s local: "unset" | TRUE | FALSE
    isValidUser,    \* start()'s local: "unset" | TRUE | FALSE
    \* ---- CalendarTools.findMeetingSlots ----
    rin,        \* the arguments: schedules, duration, startDate, endDate, attendees
    timeSlot,   \* the loop variable (an instant: minutes since a Monday 00:00 UTC)
    slots,      \* the slots pushed so far
    rpc,        \* "off" | "loop" | "done"
    result,     \* the returned array
    tzOffset    \* the process's time zone: local time = UTC + tzOffset minutes

rvars == <<rin, timeSlot, slots, rpc, result, tzOffset>>

loginVars == <<call, listener, urlStep, timer, inflight>>

cacheVars == <<memCache, cacheFile>>

pvars == <<currentAccount, graphClient, handedOut, memCache, cacheFile, call, listener,
           urlStep, timer, inflight, signout, silentReq, ret, proc>>

svars == <<spc, tools, connected, isValidTenant, isValidUser>>

vars == <<pvars, svars, rvars>>

(***************************************************************************)
(* Availability resolver                                                   *)
(***************************************************************************)

\* A Date is an instant, in minutes since a Monday 00:00 UTC. Date.getHours
\* and Date.getDay read it in the time zone of the process, here a zone with
\* a fixed offset (no daylight saving), in which setMinutes(getMinutes() + 30)
\* adds 30 minutes.
DayIndex(day) ==
    CASE day = "Mon" -> 0 [] day = "Tue" -> 1 [] day = "Wed" -> 2 [] day = "Thu" -> 3
      [] day = "Fri" -> 4 [] day = "Sat" -> 5 [] day = "Sun" -> 6

At(day, h, m) == (DayIndex(day) * 24 + h) * 60 + m

\* Date.getHours() in a process whose zone has offset z
getHoursIn(t, z) == ((t + z) \div 60) % 24

\* Date.getDay() in a process whose zone has offset z: 0 = Sunday ..
\* 6 = Saturday; day 0 of the epoch is a Monday
getDayIn(t, z) == (((t + z) \div (60 * 24)) + 1) % 7

getHours(t) == getHoursIn(t, tzOffset)

getDay(t) == getDayIn(t, tzOffset)

SlotStep == 30
BusinessStart == 9
BusinessEnd == 17
TopSlots == 10

\* Math.ceil(n / 2)
CeilHalf(n) == IF n % 2 = 0 THEN n \div 2 ELSE (n \div 2) + 1

\* A schedule is [freeBusyViewInfo |-> BOOLEAN, busyTimes |-> sequence of
\* [start, end]]; busyTimes may be absent, which `|| []` reads as empty.
NoBusyTimes == << >>

BusyConflict(busyTime, startTime, endTime) ==
    startTime < busyTime.end /\ endTime > busyTime.start

\* Variant for sensitivity analysis: the busy times are looked at also when
\* freeBusyViewInfo is missing
isTimeFree_noFlagCheck(schedule, startTime, duration) ==
    LET endTime == startTime + duration
    IN  \A i \in 1..Len(schedule.busyTimes) :
           ~BusyConflict(schedule.busyTimes[i], startTime, endTime)

isTimeFree(schedule, startTime, duration) ==
    IF ~schedule.freeBusyViewInfo
    THEN TRUE
    ELSE LET endTime == startTime + duration
         IN  \A i \in 1..Len(schedule.busyTimes) :
                ~BusyConflict(schedule.busyTimes[i], startTime, endTime)

\* the for loop of lines 185-190
RECURSIVE availableCountFrom(_, _, _, _)
availableCountFrom(schedules, i, t, duration) ==
    IF i > Len(schedules)
    THEN 0
    ELSE (IF isTimeFree(schedules[i], t, duration) THEN 1 ELSE 0)
         + availableCountFrom(schedules, i + 1, t, duration)

availableCount(schedules, t, duration) == availableCountFrom(schedules, 1, t, duration)

\* Variant for sensitivity analysis: Math.floor instead of Math.ceil
MeetsThreshold_floor(count, nAttendees) == count >= nAttendees \div 2

\* line 193
MeetsThreshold(count, nAttendees) == count >= CeilHalf(nAttendees)

\* Variant for sensitivity analysis: a slot may run one step past the window's end
BeyondEnd_start(slotEnd, endDate) == slotEnd > endDate + SlotStep

\* line 164
BeyondEnd(slotEnd, endDate) == slotEnd > endDate

\* Variant for sensitivity analysis: the last business hour is left out, as
\* if a slot had to end by 17:00
OutsideBusinessHours_lastHourOut(hour) == hour < BusinessStart \/ hour >= BusinessEnd - 1

\* line 170
OutsideBusinessHours(hour) == hour < BusinessStart \/ hour >= BusinessEnd

\* Variant for sensitivity analysis: only Sunday is skipped
IsWeekend_sundayOnly(dayOfWeek) == dayOfWeek = 0

\* line 177
IsWeekend(dayOfWeek) == dayOfWeek = 0 \/ dayOfWeek = 6

\* Variant for sensitivity analysis: ascending availableAttendees
compareSlots_ascending(a, b) ==
    IF b.availableAttendees # a.availableAttendees
    THEN a.availableAttendees - b.availableAttendees
    ELSE a.start - b.start

\* the comparator of lines 207-212
compareSlots(a, b) ==
    IF b.availableAttendees # a.availableAttendees
    THEN b.availableAttendees - a.availableAttendees
    ELSE a.start - b.start

\* Array.prototype.sort with the comparator: the sort is stable, so the
\* place of s[i] in the result is one more than the number of elements that
\* compare less than it, or compare equal and stand before it.
sortedIndex(s, i) ==
    1 + Cardinality({ j \in 1..Len(s) :
                        \/ compareSlots(s[j], s[i]) < 0
                        \/ compareSlots(s[j], s[i]) = 0 /\ j < i })

sortSlots(s) ==
    [ p \in 1..Len(s) |-> s[CHOOSE i \in 1..Len(s) : sortedIndex(s, i) = p] ]

\* Array.prototype.slice(0, n)
sliceTop(s, n) == SubSeq(s, 1, IF Len(s) < n THEN Len(s) ELSE n)

\* lines 206-213
rankSlots(s) == sliceTop(sortSlots(s), TopSlots)

\* findMeetingSlots as a function of its arguments and of the zone z of the
\* process that runs it: the loop of lines 160-203 from tick t on, with the
\* slots pushed so far
RECURSIVE searchFrom(_, _, _, _)
searchFrom(in, z, t, pushed) ==
    IF ~(t < in.endDate) THEN pushed
    ELSE IF BeyondEnd(t + in.duration, in.endDate) THEN pushed
    ELSE IF OutsideBusinessHours(getHoursIn(t, z)) \/ IsWeekend(getDayIn(t, z))
         THEN searchFrom(in, z, t + SlotStep, pushed)
    ELSE LET count == availableCount(in.schedules, t, in.duration)
         IN  searchFrom(in, z, t + SlotStep,
                IF MeetsThreshold(count, in.attendees)
                THEN Append(pushed, [start |-> t, end |-> t + in.duration,
                                     availableAttendees |-> count])
                ELSE pushed)

findMeetingSlots(in, z) == rankSlots(searchFrom(in, z, in.startDate, << >>))

(***************************************************************************)
(* Resolver inputs                                                         *)
(***************************************************************************)

MaxAttendees == 3

Busy(from, to) == [start |-> from, end |-> to]

ScheduleFree == [freeBusyViewInfo |-> TRUE, busyTimes |-> NoBusyTimes]
ScheduleBusy0900 ==
    [freeBusyViewInfo |-> TRUE, busyTimes |-> <<Busy(At("Mon", 9, 0), At("Mon", 9, 30))>>]
ScheduleBusyMorning ==
    [freeBusyViewInfo |-> TRUE, busyTimes |-> <<Busy(At("Mon", 9, 0), At("Mon", 12, 0))>>]
ScheduleNoData ==
    [freeBusyViewInfo |-> FALSE, busyTimes |-> <<Busy(At("Mon", 9, 0), At("Mon", 12, 0))>>]

ScheduleChoices == {ScheduleFree, ScheduleBusy0900, ScheduleBusyMorning, ScheduleNoData}

\* response.value holds one schedule per requested address
ScheduleLists == UNION {[1..n -> ScheduleChoices] : n \in 0..MaxAttendees}

Window(from, to) == [startDate |-> from, endDate |-> to]

Windows ==
    { Window(At("Mon", 9, 0), At("Mon", 11, 0)),
      Window(At("Mon", 9, 0), At("Mon", 15, 0)),
      Window(At("Mon", 9, 0), At("Mon", 9, 20)),
      Window(At("Mon", 9, 15), At("Mon", 10, 30)),
      Window(At("Mon", 16, 0), At("Mon", 18, 0)),
      Window(At("Fri", 16, 0), At("Sat", 10, 0)),
      Window(At("Sat", 9, 0), At("Sat", 17, 0)) }

Durations == {0, 30, 45, 60}

ResolverInputs ==
    { [schedules |-> sch, duration |-> d, startDate |-> w.startDate,
       endDate |-> w.endDate, attendees |-> Len(sch)] :
         sch \in ScheduleLists, d \in Durations, w \in Windows }

NoInput ==
    [schedules |-> << >>, duration |-> 0, startDate |-> 0, endDate |-> 0, attendees |-> 0]

\* UTC and UTC-5
TzOffsets == {0, 0 - 300}

ResolverIdle ==
    /\ tzOffset = 0
    /\ rin = NoInput
    /\ timeSlot = 0
    /\ slots = << >>
    /\ rpc = "off"
    /\ result = << >>

(***************************************************************************)
(* GraphAuthProvider                                                       *)
(***************************************************************************)

MaxCalls == 1      \* authenticate() calls of the caller that awaits each call
MaxLogins == 2     \* authenticate() calls in one process run
MaxInflight == 1   \* redirect handlers of one login awaiting the token exchange

Calls == 1..MaxLogins

\* index of the Graph client's token callback among the silent requests
TokenCallback == 0

ExpectedTenantId == "6b104499-c49f-45dc-b3a2-df95efd6eeb4"

\* '@timelarp.com'; strings are sequences of tokens
RequiredDomain == <<"@", "timelarp.com">>

\* String.prototype.endsWith
endsWith(str, suffix) ==
    /\ Len(str) >= Len(suffix)
    /\ SubSeq(str, Len(str) - Len(suffix) + 1, Len(str)) = suffix

NoAccount == [tenantId |-> "null", username |-> << >>]

AcctOk == [tenantId |-> ExpectedTenantId, username |-> <<"alice", "@", "timelarp.com">>]
AcctWrongTenant == [tenantId |-> "other-tenant", username |-> <<"bob", "@", "timelarp.com">>]
AcctWrongDomain ==
    [tenantId |-> ExpectedTenantId, username |-> <<"eve", "@", "timelarp.com", ".evil.org">>]

Accounts == {AcctOk, AcctWrongTenant, AcctWrongDomain}

\* AuthenticationResult.account is AccountInfo | null
ResponseAccounts == Accounts \cup {NoAccount}

Absent == [exists |-> FALSE, accounts |-> << >>]
Blob(accts) == [exists |-> TRUE, accounts |-> accts]

InitialCacheFiles == {Absent} \cup { Blob(<<a>>) : a \in Accounts }

\* warned: the teardown steps of signOut() that logged a warning;
\* error: the error a rejected authenticate() carries, or the failure the
\* operation of a tool call met; tool: the name a tool call asked for
NoRet ==
    [op |-> "none", val |-> "none", acct |-> NoAccount, warned |-> {}, error |-> "none",
     tool |-> "none"]
Ret(op, val, acct) ==
    [op |-> op, val |-> val, acct |-> acct, warned |-> {}, error |-> "none",
     tool |-> "none"]

Alive == proc = "running"

\* A result handed to a caller is consumed by the caller's continuation, a
\* promise job, before any timer or I/O callback runs: while ret is set, only
\* the continuation is enabled.
Quiet == Alive /\ ret = NoRet

Pending(c) == call[c] \in {"accounts", "silent", "login"}

\* a caller that awaits each call before it makes the next one
ClientIdle ==
    /\ Quiet
    /\ \A c \in Calls : ~Pending(c)
    /\ signout = "idle"
    /\ silentReq[TokenCallback] = NoAccount

InSeq(x, s) == \E i \in 1..Len(s) : s[i] = x

\* Variant for sensitivity analysis: a failed read empties the in-memory cache
beforeCacheAccess_emptyOnFail(mem, file) == IF file.exists THEN file.accounts ELSE << >>

\* cachePlugin.beforeCacheAccess: readFile + deserialize; a failed read leaves
\* the in-memory cache as it is
beforeCacheAccess(mem, file) == IF file.exists THEN file.accounts ELSE mem

\* Variant for sensitivity analysis: the write leaves an empty blob
afterCacheAccess_emptyBlob(hasChanged, writeOk, mem, file) ==
    IF hasChanged /\ writeOk THEN Blob(<< >>) ELSE file

\* cachePlugin.afterCacheAccess: writeFile(serialize()) when hasChanged; a
\* failed write is logged
afterCacheAccess(hasChanged, writeOk, mem, file) ==
    IF hasChanged /\ writeOk THEN Blob(mem) ELSE file

\* the cache after a token response for acct was stored
withAccount(mem, acct) ==
    IF acct = NoAccount \/ InSeq(acct, mem) THEN mem ELSE Append(mem, acct)

\* Variant for sensitivity analysis: the request uses the first cached account
silentRequestAccount_firstCached ==
    IF Len(memCache) > 0 THEN memCache[1] ELSE currentAccount

\* acquireTokenSilent: account: this.currentAccount
silentRequestAccount == currentAccount

\* Variant for sensitivity analysis: no guard for a missing account
validateTenantResult_noGuard(acct) ==
    IF acct = NoAccount THEN "raise"
    ELSE IF acct.tenantId # ExpectedTenantId THEN "false" ELSE "true"

validateTenantResult(acct) ==
    IF acct = NoAccount THEN "false"
    ELSE IF acct.tenantId # ExpectedTenantId THEN "false" ELSE "true"

\* Variant for sensitivity analysis: String.prototype.includes instead of endsWith
validateUserResult_includes(acct) ==
    IF acct = NoAccount THEN "false"
    ELSE IF \E i \in 1..Len(acct.username) :
               /\ i + Len(RequiredDomain) - 1 <= Len(acct.username)
               /\ SubSeq(acct.username, i, i + Len(RequiredDomain) - 1) = RequiredDomain
         THEN "true" ELSE "false"

validateUserResult(acct) ==
    IF acct = NoAccount THEN "false"
    ELSE IF ~endsWith(acct.username, RequiredDomain) THEN "false" ELSE "true"

PortFree == \A d \in Calls : listener[d] # "listening"

\* resolve() / reject() of the login's promise: the first settlement is the
\* outcome of authenticate(), later ones are ignored
settle(c, outcome) == IF call[c] = "login" THEN [call EXCEPT ![c] = outcome] ELSE call

settleRet(c, outcome, acct) ==
    IF call[c] = "login" THEN Ret("authenticate", outcome, acct) ELSE ret

\* reject(error)
settleRaise(c, error, acct) ==
    IF call[c] = "login"
    THEN [Ret("authenticate", "raised", acct) EXCEPT !.error = error]
    ELSE ret

\* Variant for sensitivity analysis: the listener is left as it is
closed_not(c) == listener

\* Variant for sensitivity analysis: close() ends whatever listens on the port
closed_port(c) ==
    [d \in Calls |-> IF listener[d] = "listening" THEN "closed" ELSE listener[d]]

\* server.close()
closed(c) == IF listener[c] = "listening" THEN [listener EXCEPT ![c] = "closed"] ELSE listener

ProviderInit ==
    /\ currentAccount = NoAccount
    /\ graphClient = FALSE
    /\ handedOut = FALSE
    /\ memCache = << >>
    /\ cacheFile \in InitialCacheFiles
    /\ call = [c \in Calls |-> "idle"]
    /\ listener = [c \in Calls |-> "none"]
    /\ urlStep = [c \in Calls |-> "none"]
    /\ timer = [c \in Calls |-> "none"]
    /\ inflight = [c \in Calls |-> 0]
    /\ signout = "idle"
    /\ silentReq = [c \in 0..MaxLogins |-> NoAccount]
    /\ ret = NoRet
    /\ proc = "running"

ServerOff ==
    /\ spc = "off"
    /\ tools = FALSE
    /\ connected = FALSE
    /\ isValidTenant = "unset"
    /\ isValidUser = "unset"

\* authenticate(): runs to the await of getAllAccounts()
Authenticate(c) ==
    /\ Quiet
    /\ call[c] = "idle"
    /\ IF c = 1 THEN TRUE ELSE call[c - 1] # "idle"
    /\ call' = [call EXCEPT ![c] = "accounts"]
    /\ UNCHANGED <<currentAccount, graphClient, handedOut, memCache, cacheFile, listener,
                   urlStep, timer, inflight, signout, silentReq, ret, proc, rvars>>

\* interactiveLogin() up to the return of the promise: app.listen(3000) and
\* setTimeout. When the port is taken the bind fails: Express 4 leaves the
\* server's 'error' event unhandled (the process ends), Express 5 passes the
\* error to the listen callback, which ignores it.
interactiveLogin(c) ==
    IF PortFree
    THEN /\ listener' = [listener EXCEPT ![c] = "listening"]
         /\ urlStep' = [urlStep EXCEPT ![c] = "pending"]
         /\ timer' = [timer EXCEPT ![c] = "armed"]
         /\ call' = [call EXCEPT ![c] = "login"]
         /\ proc' = proc
    ELSE \/ /\ proc' = "crashed"
            /\ call' = [call EXCEPT ![c] = "login"]
            /\ UNCHANGED <<listener, urlStep, timer>>
         \/ /\ listener' = [listener EXCEPT ![c] = "failed"]
            /\ urlStep' = [urlStep EXCEPT ![c] = "pending"]
            /\ timer' = [timer EXCEPT ![c] = "armed"]
            /\ call' = [call EXCEPT ![c] = "login"]
            /\ proc' = proc

\* Variant for sensitivity analysis: the cached accounts are not looked at
hasCachedAccount_never(accounts) == FALSE

\* if (accounts.length > 0), line 59
hasCachedAccount(accounts) == Len(accounts) > 0

\* getAllAccounts() returned: lines 59-74
AccountsReturned(c) ==
    /\ Quiet
    /\ call[c] = "accounts"
    /\ LET mem == beforeCacheAccess(memCache, cacheFile)
       IN  /\ memCache' = mem
           /\ IF hasCachedAccount(mem)
              THEN /\ currentAccount' = mem[1]
                   /\ silentReq' = [silentReq EXCEPT ![c] = mem[1]]
                   /\ call' = [call EXCEPT ![c] = "silent"]
                   /\ UNCHANGED <<listener, urlStep, timer, proc>>
              ELSE /\ interactiveLogin(c)
                   /\ UNCHANGED <<currentAccount, silentReq>>
    /\ UNCHANGED <<graphClient, handedOut, cacheFile, inflight, signout, ret, svars, rvars>>

\* acquireTokenSilent() of authenticate() succeeded: line 66-67
SilentSucceeded(c) ==
    /\ Quiet
    /\ call[c] = "silent"
    /\ LET mem == beforeCacheAccess(memCache, cacheFile)
       IN  /\ InSeq(silentReq[c], mem)
           /\ memCache' = mem
           /\ \E hasChanged \in BOOLEAN, writeOk \in BOOLEAN :
                 cacheFile' = afterCacheAccess(hasChanged, writeOk, mem, cacheFile)
    /\ call' = [call EXCEPT ![c] = "returned"]
    /\ ret' = Ret("authenticate", "returned", currentAccount)
    /\ silentReq' = [silentReq EXCEPT ![c] = NoAccount]
    /\ UNCHANGED <<currentAccount, graphClient, handedOut, listener, urlStep, timer,
                   inflight, signout, proc, svars, rvars>>

\* acquireTokenSilent() of authenticate() failed: lines 68-74
SilentFailed(c) ==
    /\ Quiet
    /\ call[c] = "silent"
    /\ memCache' = beforeCacheAccess(memCache, cacheFile)
    /\ silentReq' = [silentReq EXCEPT ![c] = NoAccount]
    /\ interactiveLogin(c)
    /\ UNCHANGED <<currentAccount, graphClient, handedOut, cacheFile, inflight, signout, ret, svars, rvars>>

\* the app.listen callback: getAuthCodeUrl and open, lines 140-163
ListenCallback(c) ==
    /\ Quiet
    /\ urlStep[c] = "pending"
    /\ urlStep' = [urlStep EXCEPT ![c] = "done"]
    /\ \E ok \in BOOLEAN :
          IF ok
          THEN UNCHANGED <<call, ret>>
          ELSE /\ call' = settle(c, "raised")
               /\ ret' = settleRaise(c, "authUrl", currentAccount)
    /\ UNCHANGED <<currentAccount, graphClient, handedOut, memCache, cacheFile, listener,
                   timer, inflight, signout, silentReq, proc, svars, rvars>>

\* GET /redirect without a code: lines 83-89
RedirectNoCode(c) ==
    /\ Quiet
    /\ listener[c] = "listening"
    /\ call' = settle(c, "raised")
    /\ ret' = settleRaise(c, "noCode", currentAccount)
    /\ UNCHANGED <<currentAccount, graphClient, handedOut, memCache, cacheFile, listener,
                   urlStep, timer, inflight, signout, silentReq, proc, svars, rvars>>

\* GET /redirect with a code: runs to the await of acquireTokenByCode
RedirectWithCode(c) ==
    /\ Quiet
    /\ listener[c] = "listening"
    /\ inflight[c] < MaxInflight
    /\ inflight' = [inflight EXCEPT ![c] = @ + 1]
    /\ UNCHANGED <<currentAccount, graphClient, handedOut, memCache, cacheFile, call,
                   listener, urlStep, timer, signout, silentReq, ret, proc, svars, rvars>>

\* acquireTokenByCode returned a response: lines 106-125
ExchangeSucceeded(c) ==
    /\ Quiet
    /\ inflight[c] > 0
    /\ \E acct \in ResponseAccounts, writeOk \in BOOLEAN :
          LET mem == withAccount(beforeCacheAccess(memCache, cacheFile), acct)
          IN  /\ memCache' = mem
              /\ cacheFile' = afterCacheAccess(TRUE, writeOk, mem, cacheFile)
              /\ currentAccount' = acct
              /\ ret' = settleRet(c, "returned", acct)
    /\ inflight' = [inflight EXCEPT ![c] = @ - 1]
    /\ listener' = closed(c)
    /\ call' = settle(c, "returned")
    /\ UNCHANGED <<graphClient, handedOut, urlStep, timer, signout, silentReq, proc, svars, rvars>>

\* acquireTokenByCode threw: lines 126-137
ExchangeFailed(c) ==
    /\ Quiet
    /\ inflight[c] > 0
    /\ inflight' = [inflight EXCEPT ![c] = @ - 1]
    /\ call' = settle(c, "raised")
    /\ ret' = settleRaise(c, "exchange", currentAccount)
    /\ UNCHANGED <<currentAccount, graphClient, handedOut, memCache, cacheFile, listener,
                   urlStep, timer, signout, silentReq, proc, svars, rvars>>

\* the setTimeout callback: lines 166-169
Timeout(c) ==
    /\ Quiet
    /\ timer[c] = "armed"
    /\ timer' = [timer EXCEPT ![c] = "fired"]
    /\ listener' = closed(c)
    /\ call' = settle(c, "raised")
    /\ ret' = settleRaise(c, "timeout", currentAccount)
    /\ UNCHANGED <<currentAccount, graphClient, handedOut, memCache, cacheFile, urlStep,
                   inflight, signout, silentReq, proc, svars, rvars>>

\* getGraphClient(): lines 195-211
GetGraphClient ==
    /\ Quiet
    /\ graphClient' = TRUE
    /\ handedOut' = TRUE
    /\ UNCHANGED <<currentAccount, memCache, cacheFile, call, listener, urlStep, timer,
                   inflight, signout, silentReq, ret, proc, svars, rvars>>

\* the Graph client asks for a token: lines 198-206 with 173-192
TokenRequest ==
    /\ Quiet
    /\ handedOut
    /\ silentReq[TokenCallback] = NoAccount
    /\ IF currentAccount = NoAccount
       THEN /\ ret' = Ret("token", "error", NoAccount)
            /\ UNCHANGED silentReq
       ELSE /\ silentReq' = [silentReq EXCEPT ![TokenCallback] = silentRequestAccount]
            /\ UNCHANGED ret
    /\ UNCHANGED <<currentAccount, graphClient, handedOut, memCache, cacheFile, call,
                   listener, urlStep, timer, inflight, signout, proc, svars, rvars>>

\* the silent acquisition of a token request succeeded: done(null, accessToken)
TokenIssued ==
    /\ Quiet
    /\ silentReq[TokenCallback] # NoAccount
    /\ LET mem == beforeCacheAccess(memCache, cacheFile)
       IN  /\ InSeq(silentReq[TokenCallback], mem)
           /\ memCache' = mem
           /\ \E hasChanged \in BOOLEAN, writeOk \in BOOLEAN :
                 cacheFile' = afterCacheAccess(hasChanged, writeOk, mem, cacheFile)
    /\ ret' = Ret("token", "issued", silentReq[TokenCallback])
    /\ silentReq' = [silentReq EXCEPT ![TokenCallback] = NoAccount]
    /\ UNCHANGED <<currentAccount, graphClient, handedOut, call, listener, urlStep, timer,
                   inflight, signout, proc, svars, rvars>>

\* the silent acquisition of a token request failed: done(error, null)
TokenFailed ==
    /\ Quiet
    /\ silentReq[TokenCallback] # NoAccount
    /\ memCache' = beforeCacheAccess(memCache, cacheFile)
    /\ ret' = Ret("token", "error", silentReq[TokenCallback])
    /\ silentReq' = [silentReq EXCEPT ![TokenCallback] = NoAccount]
    /\ UNCHANGED <<currentAccount, graphClient, handedOut, cacheFile, call, listener,
                   urlStep, timer, inflight, signout, proc, svars, rvars>>

\* validateTenant(): lines 213-230
ValidateTenant ==
    /\ Quiet
    /\ ret' = Ret("validateTenant", validateTenantResult(currentAccount), currentAccount)
    /\ UNCHANGED <<currentAccount, graphClient, handedOut, memCache, cacheFile, call,
                   listener, urlStep, timer, inflight, signout, silentReq, proc, svars, rvars>>

\* validateUser(): lines 232-247
ValidateUser ==
    /\ Quiet
    /\ ret' = Ret("validateUser", validateUserResult(currentAccount), currentAccount)
    /\ UNCHANGED <<currentAccount, graphClient, handedOut, memCache, cacheFile, call,
                   listener, urlStep, timer, inflight, signout, silentReq, proc, svars, rvars>>

\* Variant for sensitivity analysis: the teardown runs without looking at
\* the current account
signOutHasWork_always(acct) == TRUE

\* if (this.currentAccount), line 254
signOutHasWork(acct) == acct # NoAccount

\* signOut() to its first await; with no account it returns at once
SignOutCalled(exitAfter) ==
    /\ Quiet
    /\ signout = "idle"
    /\ IF ~signOutHasWork(currentAccount)
       THEN /\ ret' = Ret("signOut", "done", NoAccount)
            /\ proc' = IF exitAfter THEN "exit0" ELSE proc
            /\ UNCHANGED signout
       ELSE /\ signout' = "keytar"
            /\ UNCHANGED <<ret, proc>>
    /\ UNCHANGED <<currentAccount, graphClient, handedOut, memCache, cacheFile, call,
                   listener, urlStep, timer, inflight, silentReq, svars, rvars>>

\* keytar.deletePassword settled (a failure is logged): fs.unlink is issued
KeytarSettled ==
    /\ Quiet
    /\ signout = "keytar"
    /\ \E keytarOk \in BOOLEAN :
          signout' = IF keytarOk THEN "unlink" ELSE "unlinkWarned"
    /\ UNCHANGED <<currentAccount, graphClient, handedOut, memCache, cacheFile, call,
                   listener, urlStep, timer, inflight, silentReq, ret, proc, svars, rvars>>

\* Variant for sensitivity analysis: the fields are cleared inside the try
\* block of fs.unlink
signOutClears_insideTry(unlinkOk) == unlinkOk

\* lines 269-270 follow both try blocks
signOutClears(unlinkOk) == TRUE

\* the warnings of one signOut() call
signOutWarnings(state, unlinkOk) ==
    (IF state = "unlinkWarned" THEN {"keytar"} ELSE {})
       \cup (IF unlinkOk THEN {} ELSE {"unlink"})

\* fs.unlink settled (a failure is logged; unlinking a missing file fails):
\* lines 264-272
UnlinkSettled(exitAfter) ==
    /\ Quiet
    /\ signout \in {"unlink", "unlinkWarned"}
    /\ \E unlinkOk \in (IF cacheFile.exists THEN BOOLEAN ELSE {FALSE}) :
          /\ cacheFile' = IF unlinkOk THEN Absent ELSE cacheFile
          /\ currentAccount' = IF signOutClears(unlinkOk) THEN NoAccount ELSE currentAccount
          /\ graphClient' = IF signOutClears(unlinkOk) THEN FALSE ELSE graphClient
          /\ ret' = [Ret("signOut", "done", NoAccount) EXCEPT
                        !.warned = signOutWarnings(signout, unlinkOk)]
    /\ signout' = "idle"
    /\ proc' = IF exitAfter THEN "exit0" ELSE proc
    /\ UNCHANGED <<handedOut, memCache, call, listener, urlStep, timer, inflight, silentReq, svars, rvars>>

\* the caller's continuation takes the result
Continue ==
    /\ Alive
    /\ ret # NoRet
    /\ ret' = NoRet
    /\ UNCHANGED <<currentAccount, graphClient, handedOut, memCache, cacheFile, call,
                   listener, urlStep, timer, inflight, signout, silentReq, proc, svars, rvars>>

CallAuthenticate(c) == ClientIdle /\ Authenticate(c) /\ UNCHANGED svars

CallGetGraphClient == ClientIdle /\ GetGraphClient

CallTokenRequest == ClientIdle /\ TokenRequest

CallValidateTenant == ClientIdle /\ ValidateTenant

CallValidateUser == ClientIdle /\ ValidateUser

CallSignOut == ClientIdle /\ SignOutCalled(FALSE)

SignOutDone == UnlinkSettled(FALSE)

LoginEvent ==
    \/ \E c \in Calls : AccountsReturned(c)
    \/ \E c \in Calls : SilentSucceeded(c)
    \/ \E c \in Calls : SilentFailed(c)
    \/ \E c \in Calls : ListenCallback(c)
    \/ \E c \in Calls : RedirectNoCode(c)
    \/ \E c \in Calls : RedirectWithCode(c)
    \/ \E c \in Calls : ExchangeSucceeded(c)
    \/ \E c \in Calls : ExchangeFailed(c)
    \/ \E c \in Calls : Timeout(c)

ProviderEvent ==
    \/ LoginEvent
    \/ KeytarSettled

ProviderCall ==
    \/ \E c \in 1..MaxCalls : CallAuthenticate(c)
    \/ CallGetGraphClient
    \/ CallTokenRequest
    \/ TokenIssued
    \/ TokenFailed
    \/ CallValidateTenant
    \/ CallValidateUser
    \/ CallSignOut
    \/ SignOutDone
    \/ Continue

Init == ProviderInit /\ ServerOff /\ ResolverIdle

Next == ProviderEvent \/ ProviderCall

Spec == Init /\ [][Next]_vars

\* A caller that does not await: authenticate() is called again while
\* earlier calls may still be pending. Nothing in authenticate() or
\* interactiveLogin() looks at a login in progress.
AuthenticateAgain(c) == Authenticate(c) /\ UNCHANGED svars

LoginNext ==
    \/ LoginEvent
    \/ \E c \in Calls : AuthenticateAgain(c)
    \/ Continue

SpecLogin == Init /\ [][LoginNext]_vars

\* A caller that awaits each authenticate() and, after one has settled,
\* may call it again (the retry of a failed login).
RetryNext ==
    \/ LoginEvent
    \/ \E c \in Calls : CallAuthenticate(c)
    \/ Continue

\* A caller that awaits each call and may authenticate again after a
\* sign-out or after a failed call, holding on to the Graph client it got.
SessionNext ==
    \/ ProviderEvent
    \/ \E c \in Calls : CallAuthenticate(c)
    \/ CallGetGraphClient
    \/ CallTokenRequest
    \/ TokenIssued
    \/ TokenFailed
    \/ CallSignOut
    \/ SignOutDone
    \/ Continue

SpecSession == Init /\ [][SessionNext]_vars

\* What a live process is bound to do: the identity library answers
\* getAllAccounts() and acquireTokenSilent(), an armed timer fires, and the
\* continuation of a settled promise runs. Nothing is assumed of the
\* browser, of the requests to /redirect or of the token exchange.
LoginFairness ==
    /\ \A c \in Calls : WF_vars(AccountsReturned(c))
    /\ \A c \in Calls : WF_vars(SilentSucceeded(c) \/ SilentFailed(c))
    /\ \A c \in Calls : WF_vars(Timeout(c))
    /\ WF_vars(Continue)

SpecRetry == Init /\ [][RetryNext]_vars /\ LoginFairness


(***************************************************************************)
(* MCPTeamsServer                                                          *)
(***************************************************************************)

ToolNames ==
    {"createMeeting", "findAvailability", "listUpcomingMeetings", "sendTeamsMessage",
     "listTeams"}

RequestNames == ToolNames \cup {"noSuchTool"}

ServerNew ==
    /\ spc = "new"
    /\ tools = FALSE
    /\ connected = FALSE
    /\ isValidTenant = "unset"
    /\ isValidUser = "unset"

\* Variant for sensitivity analysis: the result of validateUser() is not looked at
admission_noUserCheck(acct) ==
    LET t == validateTenantResult(acct)
        u == validateUserResult(acct)
    IN  IF t # "true"
        THEN [isValidTenant |-> t, isValidUser |-> "unset", admitted |-> FALSE]
        ELSE [isValidTenant |-> t, isValidUser |-> u, admitted |-> TRUE]

\* start(), lines 227-235: the two checks, each followed by a throw
admission(acct) ==
    LET t == validateTenantResult(acct)
        u == validateUserResult(acct)
    IN  IF t # "true"
        THEN [isValidTenant |-> t, isValidUser |-> "unset", admitted |-> FALSE]
        ELSE IF u # "true"
             THEN [isValidTenant |-> t, isValidUser |-> u, admitted |-> FALSE]
             ELSE [isValidTenant |-> t, isValidUser |-> u, admitted |-> TRUE]

\* start() to the await of authenticate(): lines 219-224
ServerStart ==
    /\ spc = "new"
    /\ Quiet
    /\ Authenticate(1)
    /\ spc' = "auth"
    /\ UNCHANGED <<tools, connected, isValidTenant, isValidUser>>

\* authenticate() raised: catch, process.exit(1), lines 251-254
StartFailed ==
    /\ Alive
    /\ spc = "auth"
    /\ ret.op = "authenticate" /\ ret.val = "raised"
    /\ proc' = "exit1"
    /\ ret' = NoRet
    /\ UNCHANGED <<currentAccount, graphClient, handedOut, memCache, cacheFile, call,
                   listener, urlStep, timer, inflight, signout, silentReq, svars, rvars>>

\* authenticate() returned: lines 226-249 run as one chain of promise jobs
\* (validateTenant, validateUser, getGraphClient and connect await no I/O)
StartAdmission ==
    /\ Alive
    /\ spc = "auth"
    /\ ret.op = "authenticate" /\ ret.val = "returned"
    /\ ret' = NoRet
    /\ LET a == admission(currentAccount)
       IN  /\ isValidTenant' = a.isValidTenant
           /\ isValidUser' = a.isValidUser
           /\ IF a.admitted
              THEN /\ graphClient' = TRUE
                   /\ handedOut' = TRUE
                   /\ tools' = TRUE
                   /\ connected' = TRUE
                   /\ spc' = "ready"
                   /\ proc' = proc
              ELSE /\ proc' = "exit1"
                   /\ UNCHANGED <<graphClient, handedOut, tools, connected, spc>>
    /\ UNCHANGED <<currentAccount, memCache, cacheFile, call, listener, urlStep, timer,
                   inflight, signout, silentReq, rvars>>

\* What can go wrong in the operation of a tool: the request to the remote
\* API is rejected, the Graph client's token callback reports an error, or
\* the request carries no arguments object
Failures == {"none", "remoteApi", "tokenAcquisition", "missingArguments"}

\* A tool method. Its try/catch returns a result with isError for every
\* rejected request (sendTeamsMessage: the inner methods rethrow, the outer
\* catch returns). Reading a field of missing arguments raises: inside the
\* try in findAvailability and sendTeamsMessage, before it in createMeeting
\* (CalendarTools.ts:16-17); listUpcomingMeetings defaults its parameter and
\* listTeams has none.
toolOutcome(name, failure) ==
    IF failure = "none" THEN "toolResult"
    ELSE IF failure \in {"remoteApi", "tokenAcquisition"} THEN "toolError"
    ELSE IF name = "createMeeting" THEN "raised"
    ELSE IF name \in {"findAvailability", "sendTeamsMessage"} THEN "toolError"
    ELSE "toolResult"

\* Variant for sensitivity analysis: the switch is not inside a try block
handlerCatch_rethrow(outcome) == outcome

\* the catch of the handler, index.ts:78-86
handlerCatch(outcome) == IF outcome = "raised" THEN "toolError" ELSE outcome

\* the CallTool handler, lines 38-87
callToolResult(name, toolsReady, failure) ==
    IF ~toolsReady THEN "notInitialized"
    ELSE IF name \notin ToolNames THEN "unknownTool"
    ELSE handlerCatch(toolOutcome(name, failure))

\* the isError field of a result: set at index.ts:47, 76 and 85 and in the
\* catch blocks of the tools, absent from the results of the tools
isError(val) == val \in {"notInitialized", "unknownTool", "toolError"}

\* A CallTool request is handled. The handler is registered by the
\* constructor, so it is taken here in every state of a live process, also
\* before start() has connected the transport.
CallTool ==
    /\ Quiet
    /\ spc \in {"auth", "ready"}
    /\ \E name \in RequestNames, failure \in Failures :
          ret' = [Ret("callTool", callToolResult(name, tools, failure), currentAccount)
                     EXCEPT !.error = failure, !.tool = name]
    /\ UNCHANGED <<currentAccount, graphClient, handedOut, memCache, cacheFile, call,
                   listener, urlStep, timer, inflight, signout, silentReq, proc, svars, rvars>>

\* the response of a tool call is sent
ToolReplied ==
    /\ ret.op = "callTool"
    /\ Continue

\* SIGINT / SIGTERM: stop() calls signOut(), then process.exit(0)
Signal ==
    /\ spc \in {"auth", "ready"}
    /\ SignOutCalled(TRUE)

StopDone == UnlinkSettled(TRUE)

\* the next process run: memory is new, the cache file is what was left
Restart ==
    /\ proc # "running"
    /\ currentAccount' = NoAccount
    /\ graphClient' = FALSE
    /\ handedOut' = FALSE
    /\ memCache' = << >>
    /\ call' = [c \in Calls |-> "idle"]
    /\ listener' = [c \in Calls |-> "none"]
    /\ urlStep' = [c \in Calls |-> "none"]
    /\ timer' = [c \in Calls |-> "none"]
    /\ inflight' = [c \in Calls |-> 0]
    /\ signout' = "idle"
    /\ silentReq' = [c \in 0..MaxLogins |-> NoAccount]
    /\ ret' = NoRet
    /\ proc' = "running"
    /\ spc' = "new"
    /\ tools' = FALSE
    /\ connected' = FALSE
    /\ isValidTenant' = "unset"
    /\ isValidUser' = "unset"
    /\ UNCHANGED <<cacheFile, rvars>>

ServerInit == ProviderInit /\ ServerNew /\ ResolverIdle

ServerNext ==
    \/ ServerStart
    \/ StartFailed
    \/ StartAdmission
    \/ ProviderEvent
    \/ CallTool
    \/ ToolReplied
    \/ Signal
    \/ StopDone
    \/ Restart

SpecServer == ServerInit /\ [][ServerNext]_vars

(***************************************************************************)
(* findMeetingSlots, one loop iteration per step                           *)
(***************************************************************************)

\* the resolver alone: no provider, no server
ProviderOff ==
    /\ ProviderInit
    /\ cacheFile = Absent

ResolverInit ==
    /\ ProviderOff
    /\ ServerOff
    /\ rin \in ResolverInputs
    /\ tzOffset \in TzOffsets
    /\ timeSlot = rin.startDate
    /\ slots = << >>
    /\ rpc = "loop"
    /\ result = << >>

InLoop == rpc = "loop" /\ timeSlot < rin.endDate

\* while (timeSlot < endDate) is false: sort, slice, return
LoopExit ==
    /\ rpc = "loop"
    /\ ~(timeSlot < rin.endDate)
    /\ rpc' = "done"
    /\ result' = rankSlots(slots)
    /\ UNCHANGED <<rin, timeSlot, slots, tzOffset, pvars, svars>>

\* if (slotEnd > endDate) break; then sort, slice, return
LoopBreak ==
    /\ InLoop
    /\ BeyondEnd(timeSlot + rin.duration, rin.endDate)
    /\ rpc' = "done"
    /\ result' = rankSlots(slots)
    /\ UNCHANGED <<rin, timeSlot, slots, tzOffset, pvars, svars>>

\* Variant for sensitivity analysis: continue without moving the tick
skipTick_stay(t) == t

\* timeSlot.setMinutes(timeSlot.getMinutes() + 30); continue: lines 171-172
\* and 178-179
skipTick(t) == t + SlotStep

SkipBusinessHours ==
    /\ InLoop
    /\ ~BeyondEnd(timeSlot + rin.duration, rin.endDate)
    /\ OutsideBusinessHours(getHours(timeSlot))
    /\ timeSlot' = skipTick(timeSlot)
    /\ UNCHANGED <<rin, slots, rpc, result, tzOffset, pvars, svars>>

SkipWeekend ==
    /\ InLoop
    /\ ~BeyondEnd(timeSlot + rin.duration, rin.endDate)
    /\ ~OutsideBusinessHours(getHours(timeSlot))
    /\ IsWeekend(getDay(timeSlot))
    /\ timeSlot' = skipTick(timeSlot)
    /\ UNCHANGED <<rin, slots, rpc, result, tzOffset, pvars, svars>>

EvaluateSlot ==
    /\ InLoop
    /\ ~BeyondEnd(timeSlot + rin.duration, rin.endDate)
    /\ ~OutsideBusinessHours(getHours(timeSlot))
    /\ ~IsWeekend(getDay(timeSlot))
    /\ LET count == availableCount(rin.schedules, timeSlot, rin.duration)
       IN  slots' = IF MeetsThreshold(count, rin.attendees)
                    THEN Append(slots, [start |-> timeSlot,
                                        end |-> timeSlot + rin.duration,
                                        availableAttendees |-> count])
                    ELSE slots
    /\ timeSlot' = timeSlot + SlotStep
    /\ UNCHANGED <<rin, rpc, result, tzOffset, pvars, svars>>

ResolverNext ==
    \/ LoopExit
    \/ LoopBreak
    \/ SkipBusinessHours
    \/ SkipWeekend
    \/ EvaluateSlot

SpecResolver == ResolverInit /\ [][ResolverNext]_vars

\* findAvailability calls findMeetingSlots with the response and the
\* parsed window: lines 112-118 and 154-158
FindMeetingSlotsCalled ==
    /\ rpc = "off"
    /\ \E in \in ResolverInputs, z \in TzOffsets :
          /\ rin' = in
          /\ tzOffset' = z
          /\ timeSlot' = in.startDate
    /\ slots' = << >>
    /\ rpc' = "loop"
    /\ result' = << >>
    /\ UNCHANGED <<pvars, svars>>

ResolverRunInit == ProviderOff /\ ServerOff /\ ResolverIdle

ResolverRunNext == FindMeetingSlotsCalled \/ ResolverNext

\* findMeetingSlots is synchronous: once called it runs to its return
SpecResolverRun ==
    ResolverRunInit /\ [][ResolverRunNext]_vars /\ WF_vars(ResolverNext)

(***************************************************************************)
(* Provider and server claims                                              *)
(***************************************************************************)

Settled(c) == call[c] \in {"returned", "raised"}

\* C1: once authenticate() has returned or raised, the redirect listener of
\* its interactive login is no longer listening.
C1_ListenerClosedOnExit ==
    \A c \in Calls : Settled(c) => listener[c] # "listening"

\* C2: at the instant authenticate() returns normally, a current account is
\* set.
C2_ReturnsWithSession ==
    (ret.op = "authenticate" /\ ret.val = "returned") => currentAccount # NoAccount

DispatchedResults == {"unknownTool", "toolError", "toolResult"}

\* C3: the tool components exist, and the transport is connected, only when
\* authenticate() has returned and both checks have returned true; a run in
\* which authenticate() raised or a check returned false has no tool
\* component and no connected transport; a tool call is dispatched only when
\* the tool components exist, and is answered "not initialized" otherwise.
C3_StartupOrdering ==
    /\ tools =>
          /\ call[1] = "returned"
          /\ isValidTenant = "true"
          /\ isValidUser = "true"
    /\ connected => tools
    /\ (call[1] = "raised" \/ isValidTenant = "false" \/ isValidUser = "false"
          \/ proc = "exit1")
          => ~tools /\ ~connected
    /\ ret.op = "callTool" =>
          /\ ret.val \in DispatchedResults => tools
          /\ ~tools => ret.val = "notInitialized"

C3_Witness ==
    /\ proc = "running"
    /\ tools /\ connected
    /\ isValidTenant = "true" /\ isValidUser = "true"
    /\ ret.op = "callTool" /\ ret.val = "toolResult"

\* C4: when validateTenant() or validateUser() returns false, no current
\* account remains.
C4_FailedAdmissionDiscardsSession ==
    [][ ((CallValidateTenant \/ CallValidateUser) /\ ret'.val = "false")
           => currentAccount' = NoAccount ]_vars

\* C5: a token request of the Graph client with an account stored starts a
\* silent acquisition with that account; without one it is answered with an
\* error; a failed silent acquisition is answered with an error; no step of a
\* token request touches a login (no call, listener, timer or exchange
\* changes).
C5_TokenRequestSilentOnly ==
    [][ /\ CallTokenRequest =>
             /\ UNCHANGED loginVars
             /\ currentAccount # NoAccount =>
                   silentReq'[TokenCallback] = currentAccount /\ ret' = NoRet
             /\ currentAccount = NoAccount =>
                   ret'.op = "token" /\ ret'.val = "error" /\ UNCHANGED silentReq
        /\ TokenFailed =>
             /\ UNCHANGED loginVars
             /\ ret'.op = "token" /\ ret'.val = "error"
        /\ TokenIssued =>
             /\ UNCHANGED loginVars
             /\ ret'.op = "token" /\ ret'.val = "issued"
             /\ ret'.acct = silentReq[TokenCallback] ]_vars

C5_Witness ==
    /\ ret.op = "token" /\ ret.val = "error"
    /\ ret.acct # NoAccount
    /\ currentAccount = ret.acct
    /\ \A c \in Calls : ~Pending(c)

\* C10: with no current account, validateTenant() and validateUser() return
\* false (they do not raise) and change nothing of the provider.
C10_ValidateFailsClosed ==
    [][ ((CallValidateTenant \/ CallValidateUser) /\ currentAccount = NoAccount)
           => /\ ret'.val = "false"
              /\ UNCHANGED <<currentAccount, graphClient, handedOut, memCache, cacheFile,
                             call, listener, urlStep, timer, inflight, signout, silentReq,
                             proc>> ]_vars

\* validateUser() returned false after a sign-out
C10_Witness ==
    /\ ret.op = "validateUser" /\ ret.val = "false" /\ ret.acct = NoAccount
    /\ currentAccount = NoAccount
    /\ handedOut /\ ~graphClient
    /\ call[1] = "returned"

(***************************************************************************)
(* Resolver claims                                                         *)
(***************************************************************************)

\* the ticks windowStart + 30k that lie before the window end
Ticks ==
    { rin.startDate + 30 * k : k \in 0..((rin.endDate - rin.startDate) \div 30) }

\* ticks that pass the window-end, business-hours and weekday checks
PassingTicks ==
    { t \in Ticks :
        /\ t < rin.endDate
        /\ t + rin.duration <= rin.endDate
        /\ getHours(t) \in 9..16
        /\ getDay(t) \in 1..5 }

FreeAttendees(t) ==
    Cardinality({ i \in 1..Len(rin.schedules) : isTimeFree(rin.schedules[i], t, rin.duration) })

Retained(t) == \E i \in 1..Len(slots) : slots[i].start = t

\* C6: once the search has ended, a tick that passed the window-end,
\* business-hours and weekday checks is among the retained slots if and only
\* if the number of free attendees is at least ceil(n/2), written here as
\* 2 * free >= n; with no attendees every such tick is retained.
C6_MajorityThreshold ==
    rpc = "done" =>
        /\ \A t \in PassingTicks : Retained(t) <=> 2 * FreeAttendees(t) >= rin.attendees
        /\ rin.attendees = 0 => \A t \in PassingTicks : Retained(t)

C6_Witness ==
    /\ rpc = "done"
    /\ rin.attendees = 3
    /\ \E t \in PassingTicks : FreeAttendees(t) = 2 /\ Retained(t)
    /\ \E t \in PassingTicks : FreeAttendees(t) = 1 /\ ~Retained(t)

OnSaturday(t) == getDay(t) = 6

\* C7: no returned slot (and no retained slot) starts at an hour outside
\* 9..16 or on a Saturday or Sunday; a window that lies on one Saturday
\* returns nothing.
C7_BusinessHoursWeekdays ==
    /\ \A i \in 1..Len(slots) :
          getHours(slots[i].start) \in 9..16 /\ getDay(slots[i].start) \in 1..5
    /\ \A i \in 1..Len(result) :
          getHours(result[i].start) \in 9..16 /\ getDay(result[i].start) \in 1..5
    /\ (rpc = "done" /\ OnSaturday(rin.startDate) /\ OnSaturday(rin.endDate))
          => result = << >>

C7_Witness ==
    /\ rpc = "done"
    /\ OnSaturday(rin.startDate) /\ OnSaturday(rin.endDate)
    /\ rin.startDate + rin.duration <= rin.endDate
    /\ getHours(rin.startDate) \in 9..16
    /\ rin.attendees = 2
    /\ timeSlot >= rin.endDate
    /\ result = << >>

RanksBefore(a, b) ==
    \/ a.availableAttendees > b.availableAttendees
    \/ a.availableAttendees = b.availableAttendees /\ a.start < b.start

SlotSet(s) == { s[i] : i \in 1..Len(s) }

Scenario ==
    /\ rin.schedules = <<ScheduleBusy0900, ScheduleFree, ScheduleFree>>
    /\ rin.startDate + tzOffset = At("Mon", 9, 0)
    /\ rin.endDate + tzOffset = At("Mon", 11, 0)
    /\ rin.duration = 30

\* C8: the returned sequence is strictly ordered by descending
\* availableAttendees, then ascending start; it has at most 10 entries, all
\* of them retained slots; every retained slot left out ranks after every
\* returned one. In the three-attendee scenario the 09:30 slot (3 free) is
\* returned before the 09:00 slot (2 free).
C8_RankedTopTen ==
    rpc = "done" =>
        /\ Len(result) <= 10
        /\ \A i \in 1..Len(result) : \A j \in 1..Len(result) :
              i < j => RanksBefore(result[i], result[j])
        /\ SlotSet(result) \subseteq SlotSet(slots)
        /\ Len(result) = (IF Len(slots) < 10 THEN Len(slots) ELSE 10)
        /\ \A s \in SlotSet(slots) \ SlotSet(result) :
              \A r \in SlotSet(result) : RanksBefore(r, s)
        /\ Scenario =>
              \E i \in 1..Len(result) : \E j \in 1..Len(result) :
                 /\ i < j
                 /\ result[i].start + tzOffset = At("Mon", 9, 30) /\ result[i].availableAttendees = 3
                 /\ result[j].start + tzOffset = At("Mon", 9, 0) /\ result[j].availableAttendees = 2

C8_Witness ==
    /\ rpc = "done"
    /\ Len(slots) > 10
    /\ Len(result) = 10
    /\ result[1].availableAttendees > result[10].availableAttendees
    /\ result[1].start > result[10].start

\* C9: no returned slot (and no retained slot) ends after the window's end,
\* and a window shorter than the duration returns nothing.
C9_WithinWindow ==
    /\ \A i \in 1..Len(slots) : slots[i].end <= rin.endDate
    /\ \A i \in 1..Len(result) : result[i].end <= rin.endDate
    /\ (rpc = "done" /\ rin.endDate - rin.startDate < rin.duration) => result = << >>

C9_Witness ==
    /\ rpc = "done"
    /\ rin.endDate - rin.startDate < rin.duration
    /\ getHours(rin.startDate) \in 9..16 /\ getDay(rin.startDate) \in 1..5
    /\ rin.attendees = 0
    /\ result = << >>

(***************************************************************************)
(* Admission checks, sign-out, logins, persistence                         *)
(***************************************************************************)

\* the last two tokens of the user name are "@" and the configured domain
HasRequiredSuffix(acct) ==
    /\ Len(acct.username) >= 2
    /\ acct.username[Len(acct.username) - 1] = "@"
    /\ acct.username[Len(acct.username)] = "timelarp.com"

\* C11: with a current account, validateTenant() returns true exactly when
\* the account's tenantId equals the configured tenant and false otherwise;
\* validateUser() returns true exactly when the user name ends with the
\* configured suffix and false otherwise, whatever the tenant is.
C11_ChecksExactAndIndependent ==
    [][ /\ (CallValidateTenant /\ currentAccount # NoAccount) =>
              /\ ret'.val \in {"true", "false"}
              /\ ret'.val = "true" <=> currentAccount.tenantId = ExpectedTenantId
        /\ (CallValidateUser /\ currentAccount # NoAccount) =>
              /\ ret'.val \in {"true", "false"}
              /\ ret'.val = "true" <=> HasRequiredSuffix(currentAccount) ]_vars

\* validateUser() returned true for an account of another tenant
C11_Witness ==
    /\ ret.op = "validateUser" /\ ret.val = "true"
    /\ currentAccount # NoAccount
    /\ currentAccount.tenantId # ExpectedTenantId
    /\ validateTenantResult(currentAccount) = "false"

\* C12: signOut() called with a current account completes (it does not
\* raise) and at its completion no current account and no Graph client are
\* held, whatever the outcomes of keytar.deletePassword and fs.unlink.
C12_SignOutAlwaysCompletes ==
    [][ SignOutDone =>
          /\ ret'.op = "signOut" /\ ret'.val = "done"
          /\ currentAccount' = NoAccount
          /\ graphClient' = FALSE
          /\ signout' = "idle" ]_vars

\* signOut() completed after both teardown steps failed
C12_Witness ==
    /\ ret.op = "signOut" /\ ret.val = "done"
    /\ ret.warned = {"keytar", "unlink"}
    /\ cacheFile.exists
    /\ handedOut
    /\ currentAccount = NoAccount /\ ~graphClient

\* C13: a completed signOut() leaves no current account (C12), and
\* signOut() called with no current account returns at once, raises nothing
\* and changes nothing: not the account, the Graph client, the caches or the
\* cache file. So the second of two calls in a row leaves the state of the
\* first.
C13_SignOutIdempotent ==
    [][ /\ SignOutDone => currentAccount' = NoAccount /\ graphClient' = FALSE
        /\ (CallSignOut /\ currentAccount = NoAccount) =>
              /\ ret'.op = "signOut" /\ ret'.val = "done" /\ ret'.warned = {}
              /\ UNCHANGED <<currentAccount, graphClient, handedOut, memCache, cacheFile,
                             call, listener, urlStep, timer, inflight, signout,
                             silentReq, proc>> ]_vars

\* a signOut() that returned at once, with nothing to tear down, after an
\* earlier signOut() cleared the Graph client and failed to delete the file
C13_Witness ==
    /\ ret.op = "signOut" /\ ret.val = "done" /\ ret.warned = {}
    /\ currentAccount = NoAccount
    /\ handedOut /\ ~graphClient
    /\ cacheFile.exists
    /\ signout = "idle"

\* the calls whose interactive login has been started and has not settled
LoginsInFlight == { c \in Calls : call[c] = "login" }

\* C14: at most one interactive login is in flight: no second login is
\* started (no second app.listen on the port) while the login of an earlier
\* authenticate() call is pending.
C14_SingleLoginInFlight == Cardinality(LoginsInFlight) <= 1

\* C15: when the 5-minute timer of a login fires while the login is pending
\* and its listener is listening, authenticate() raises the timeout error,
\* the listener is closed and the port is free; and a login that starts
\* while the port is free binds it.
C15_TimeoutClosesListener ==
    [][ \A c \in Calls :
          /\ (Timeout(c) /\ call[c] = "login" /\ listener[c] = "listening") =>
                /\ call'[c] = "raised"
                /\ ret'.op = "authenticate" /\ ret'.val = "raised"
                /\ ret'.error = "timeout"
                /\ listener'[c] = "closed"
                /\ PortFree'
          /\ (call[c] # "login" /\ call'[c] = "login" /\ PortFree) =>
                listener'[c] = "listening" ]_vars

\* the first authenticate(), called with no cached account, raised the
\* timeout error with no redirect received; no other call has been made
C15_Witness ==
    /\ ret.op = "authenticate" /\ ret.val = "raised" /\ ret.error = "timeout"
    /\ call[1] = "raised" /\ call[2] = "idle"
    /\ memCache = << >> /\ ~cacheFile.exists
    /\ inflight[1] = 0
    /\ timer[1] = "fired"
    /\ listener[1] = "closed"
    /\ PortFree

\* C16: a step that ends a process run in which authenticate() returned
\* and the cache file holds accounts leaves the file as it is, and the next
\* run's authenticate() starts a silent acquisition with the first account
\* of the file it loads.
C16_CredentialsSurviveRestart ==
    [][ /\ (proc = "running" /\ proc' # "running" /\ call[1] = "returned"
               /\ cacheFile.exists /\ Len(cacheFile.accounts) > 0)
             => cacheFile' = cacheFile
        /\ (AccountsReturned(1) /\ cacheFile.exists /\ Len(cacheFile.accounts) > 0)
             => call'[1] = "silent" /\ silentReq'[1] = cacheFile.accounts[1] ]_vars

\* the steps that end a silent acquisition (they read the cache first)
SilentEnds ==
    \/ \E c \in Calls : SilentSucceeded(c) \/ SilentFailed(c)
    \/ TokenIssued
    \/ TokenFailed

\* C17 (as amended): no outcome depends on the cache file being readable,
\* writable or deletable. A cache access whose read fails (no file) leaves
\* the in-memory cache as it is, which is empty only until the process has
\* acquired an account; an acquisition that succeeds returns its normal
\* result whether or not the file was written; signOut() returns normally
\* whether or not the file was deleted.
C17_CacheFailuresNotFatal ==
    [][ /\ \A c \in Calls :
              (AccountsReturned(c) /\ ~cacheFile.exists) =>
                 /\ memCache' = memCache
                 /\ call'[c] = IF Len(memCache) > 0 THEN "silent" ELSE "login"
        /\ (SilentEnds /\ ~cacheFile.exists) => memCache' = memCache
        /\ \A c \in Calls :
              /\ SilentSucceeded(c) => ret'.val = "returned"
              /\ (ExchangeSucceeded(c) /\ call[c] = "login") => ret'.val = "returned"
        /\ TokenIssued => ret'.val = "issued"
        /\ SignOutDone => ret'.val = "done" ]_vars

\* a token was issued from the in-memory cache: the login's write of the
\* cache file had failed and the read before the token request failed
C17_Witness ==
    /\ ret.op = "token" /\ ret.val = "issued"
    /\ ~cacheFile.exists
    /\ Len(memCache) > 0
    /\ call[1] = "returned"

\* C17 (as stated): a cache access whose read fails sees an empty cache, so
\* authenticate() goes to the interactive login and no silent acquisition
\* succeeds.
C17_ReadFailureIsEmptyCache ==
    [][ /\ \A c \in Calls :
              /\ (AccountsReturned(c) /\ ~cacheFile.exists) => call'[c] = "login"
              /\ (SilentSucceeded(c) /\ ~cacheFile.exists) => FALSE
        /\ (TokenIssued /\ ~cacheFile.exists) => FALSE ]_vars

\* C20: at the instant authenticate() raises, no current account is set,
\* so that validateTenant() and validateUser() return false.
C20_NoSessionAfterRaise ==
    (ret.op = "authenticate" /\ ret.val = "raised") =>
        /\ currentAccount = NoAccount
        /\ validateTenantResult(currentAccount) = "false"
        /\ validateUserResult(currentAccount) = "false"

(***************************************************************************)
(* Resolver claims, continued                                              *)
(***************************************************************************)

\* C18: the returned sequence is the one every invocation with the same
\* arguments returns, in whatever process it runs: it is a function of the
\* schedules, the attendee list, the window and the duration alone.
C18_Deterministic ==
    rpc = "done" => \A z \in TzOffsets : result = findMeetingSlots(rin, z)

\* a schedule with no busy interval, or without the free/busy data marker
FailOpen(schedule) == ~schedule.freeBusyViewInfo \/ Len(schedule.busyTimes) = 0

FailOpenAttendees == { i \in 1..Len(rin.schedules) : FailOpen(rin.schedules[i]) }

\* the other attendees with no busy interval overlapping [from, to)
OthersFree(from, to) ==
    { i \in (1..Len(rin.schedules)) \ FailOpenAttendees :
        \A k \in 1..Len(rin.schedules[i].busyTimes) :
           ~(from < rin.schedules[i].busyTimes[k].end
               /\ to > rin.schedules[i].busyTimes[k].start) }

CachedAccounts == beforeCacheAccess(memCache, cacheFile)

LoginStarts(c) == call[c] # "login" /\ call'[c] = "login"

\* C21: when getAllAccounts() returns at least one account, authenticate()
\* starts a silent acquisition with the first of them and starts no login in
\* that step; a login starts only from a failed silent acquisition or from an
\* empty account list; a call that has started its login, or has returned or
\* raised, starts no login again and, once settled, stays as it is: its timer
\* is not armed again and its listener is not bound again.
C21_SilentFirstOneFallback ==
    [][ \A c \in Calls :
          /\ (call[c] = "accounts" /\ Len(CachedAccounts) > 0
                                    /\ AccountsReturned(c)) =>
                /\ call'[c] = "silent"
                /\ silentReq'[c] = CachedAccounts[1]
                /\ currentAccount' = CachedAccounts[1]
                /\ UNCHANGED <<listener, urlStep, timer, inflight>>
          /\ LoginStarts(c) =>
                \/ SilentFailed(c)
                \/ AccountsReturned(c) /\ Len(CachedAccounts) = 0
          /\ call[c] \in {"login", "returned", "raised"} =>
                /\ call'[c] \in {"login", "returned", "raised"}
                /\ silentReq'[c] = NoAccount
          /\ Settled(c) =>
                /\ call'[c] = call[c]
                /\ timer[c] # "armed" => timer'[c] # "armed"
                /\ listener[c] # "listening" => listener'[c] # "listening" ]_vars

\* authenticate() raised after its silent acquisition failed and the login
\* that followed timed out
C21_Witness ==
    /\ ret.op = "authenticate" /\ ret.val = "raised" /\ ret.error = "timeout"
    /\ call[1] = "raised"
    /\ Len(memCache) > 0
    /\ currentAccount = memCache[1]
    /\ listener[1] = "closed"

\* the events of the interactive login of call c
AttemptEvent(c) ==
    \/ ListenCallback(c)
    \/ RedirectNoCode(c)
    \/ RedirectWithCode(c)
    \/ ExchangeSucceeded(c)
    \/ ExchangeFailed(c)
    \/ Timeout(c)

\* authenticate() has raised for a callback without a code, a failed token
\* exchange or the timeout: its login was rejected while the app.listen
\* callback, the only other place that rejects, had not ended
FailedAttempt(c) == call[c] = "raised" /\ urlStep[c] = "pending"

\* C22: once authenticate() has raised for a callback without a code, a
\* failed token exchange or the timeout, no event of that login changes the
\* current account.
C22_FailedAttemptTerminal ==
    [][ \A c \in Calls :
          (FailedAttempt(c) /\ AttemptEvent(c)) => currentAccount' = currentAccount ]_vars

\* a request to /redirect of the login of call c has been handled to its
\* end and has rejected the login: authenticate() raised while the timer had
\* not fired and the app.listen callback had not ended
RequestHandled(c) ==
    /\ call[c] = "raised"
    /\ urlStep[c] = "pending"
    /\ timer[c] = "armed"

\* a request to /redirect is taken by the handler of call c
RequestProcessed(c) == RedirectNoCode(c) \/ RedirectWithCode(c)

\* C23: after a request to /redirect has been handled, the listener of that
\* login processes no further request and starts no further token exchange.
C23_OneCallbackPerLogin ==
    [][ \A c \in Calls :
          RequestHandled(c) =>
             /\ ~RequestProcessed(c)
             /\ inflight'[c] <= inflight[c] ]_vars

\* some busy interval of the schedule overlaps [from, to)
Overlapped(schedule, from, to) ==
    \E k \in 1..Len(schedule.busyTimes) :
       from < schedule.busyTimes[k].end /\ to > schedule.busyTimes[k].start

\* C24: at every tick the search visits, each attendee schedule is found
\* free if and only if none of its busy intervals overlaps the slot
\* [timeSlot, timeSlot + duration), and every retained slot counts exactly
\* the schedules without an overlapping busy interval.
C24_FreeIffNoOverlap ==
    /\ InLoop =>
          \A i \in 1..Len(rin.schedules) :
             isTimeFree(rin.schedules[i], timeSlot, rin.duration)
                <=> ~Overlapped(rin.schedules[i], timeSlot, timeSlot + rin.duration)
    /\ \A k \in 1..Len(slots) :
          slots[k].availableAttendees =
             Cardinality({ i \in 1..Len(rin.schedules) :
                             ~Overlapped(rin.schedules[i], slots[k].start, slots[k].end) })

\* C25: once the search has ended, every tick windowStart + 30k before the
\* window end whose slot ends within the window, whose start hour is in
\* 9..16, whose start day is Monday to Friday and whose free count is at
\* least ceil(n/2) is among the slots pushed before sorting and truncation,
\* with its own start, end and count; nothing is asked of the hour at which
\* the slot ends.
C25_CandidatesBeforeTruncation ==
    rpc = "done" =>
        \A t \in PassingTicks :
           FreeAttendees(t) >= CeilHalf(rin.attendees) =>
              \E i \in 1..Len(slots) :
                 /\ slots[i].start = t
                 /\ slots[i].end = t + rin.duration
                 /\ slots[i].availableAttendees = FreeAttendees(t)

\* a slot that starts at 16:30 and ends at 17:30 was pushed
C25_Witness ==
    /\ rpc = "done"
    /\ rin.duration = 60
    /\ \E i \in 1..Len(slots) :
          /\ getHours(slots[i].start) = 16
          /\ slots[i].start + tzOffset = At("Mon", 16, 30)
          /\ getHours(slots[i].end) = 17
          /\ slots[i].end + tzOffset = At("Mon", 17, 30)

\* the cache accesses that store a token response
StoringAccess ==
    \/ \E c \in Calls : ExchangeSucceeded(c) \/ SilentSucceeded(c)
    \/ TokenIssued

C27_AuthenticateTerminates ==
    \A c \in Calls : (call[c] # "idle") ~> Settled(c)

\* C28: every search returns; each loop iteration either ends the search
\* or moves the tick forward by exactly 30 minutes, the iterations that skip
\* a tick included, and changes nothing of the arguments.
C28_SearchTerminates ==
    /\ [][ rpc = "loop" =>
              /\ rpc' = "done" \/ (rpc' = "loop" /\ timeSlot' = timeSlot + 30)
              /\ (SkipBusinessHours \/ SkipWeekend) => timeSlot' = timeSlot + 30
              /\ rin' = rin ]_vars
    /\ (rpc = "loop") ~> (rpc = "done")

\* a search with duration 0 from Friday 16:00 to Saturday 10:00 has
\* returned after skipping the night and the Saturday morning
C28_Witness ==
    /\ rpc = "done"
    /\ rin.duration = 0
    /\ rin.startDate + tzOffset = At("Fri", 16, 0)
    /\ rin.endDate + tzOffset = At("Sat", 10, 0)
    /\ timeSlot >= rin.endDate
    /\ Len(slots) = 2

\* The sign-out that cleared the Graph client came after the first
\* authenticate() had returned, and no authenticate() has returned since:
\* before the first call there is no account to sign out, the caller awaits
\* each call, and only the first call has returned.
SignedOutSession ==
    /\ handedOut /\ ~graphClient
    /\ call[1] = "returned"
    /\ \A c \in Calls \ {1} : call[c] # "returned"

\* C29: once signOut() has completed on the Session of a successful
\* authenticate(), and no authenticate() has succeeded since, no token
\* request made through the Graph client handed out before is answered with
\* an access token.
C29_NoTokenAfterSignOut ==
    (ret.op = "token" /\ SignedOutSession) => ret.val = "error"

\* C30: every tool call is answered with a result, never with a raised
\* error; the result carries isError when the tool components do not exist,
\* when the name is not a tool, and when the request to the remote API or
\* the token acquisition failed.
C30_HandlerNeverRaises ==
    ret.op = "callTool" =>
        /\ ret.val \in {"notInitialized", "unknownTool", "toolError", "toolResult"}
        /\ ~tools => isError(ret.val)
        /\ ret.tool \notin ToolNames => isError(ret.val)
        /\ ret.error \in {"remoteApi", "tokenAcquisition"} => isError(ret.val)

\* sendTeamsMessage answered with an error result after the token
\* acquisition failed, in a server that passed admission
C30_Witness ==
    /\ ret.op = "callTool"
    /\ ret.tool = "sendTeamsMessage"
    /\ ret.error = "tokenAcquisition"
    /\ ret.val = "toolError"
    /\ tools /\ connected
    /\ spc = "ready"

(***************************************************************************)
(* Sign-out and late timers                                                *)
(***************************************************************************)

\* signOut() has completed and its fs.unlink removed the cache file, in a
\* session whose credentials all came from that file: an authenticate()
\* returned without a login, so the file existed then; no login was ever
\* started, so no token exchange has added an account; the file is gone,
\* which only signOut() does, and signOut() left no current account.
SignedOutFileDeleted ==
    /\ ~cacheFile.exists
    /\ currentAccount = NoAccount
    /\ signout = "idle"
    /\ \E d \in Calls : call[d] = "returned"
    /\ \A d \in Calls : listener[d] = "none"

\* C31: after signOut() has completed with the cache file deleted, the
\* getAllAccounts() of a later authenticate() returns no account: the call
\* goes to the interactive login and starts no silent acquisition.
C31_NoSilentAfterSignOut ==
    [][ \A c \in Calls :
          (SignedOutFileDeleted /\ AccountsReturned(c)) =>
              /\ call'[c] = "login"
              /\ silentReq'[c] = NoAccount
              /\ currentAccount' = NoAccount ]_vars

\* the interactive login of call c has succeeded and its timer is running:
\* a timer is armed only by a login, and a login returns only through a
\* token exchange that succeeded
SucceededLogin(c) == call[c] = "returned" /\ timer[c] = "armed"

\* C32: when the timer of a login that has succeeded fires, the call stays
\* returned and nothing is delivered to a caller, the current account, the
\* Graph client, the caches and the sign-out in progress are as before, and
\* every other call keeps its position, its listener, its timer and its
\* token exchanges.
C32_LateTimerHarmless ==
    [][ \A c \in Calls :
          (SucceededLogin(c) /\ Timeout(c)) =>
              /\ call'[c] = "returned"
              /\ ret' = ret
              /\ proc' = proc
              /\ UNCHANGED <<currentAccount, graphClient, memCache, cacheFile, signout>>
              /\ listener'[c] = listener[c]
              /\ \A d \in Calls \ {c} :
                    /\ listener'[d] = listener[d]
                    /\ call'[d] = call[d]
                    /\ timer'[d] = timer[d]
                    /\ inflight'[d] = inflight[d]
                    /\ urlStep'[d] = urlStep[d] ]_vars

\* the timer of the first login, which had succeeded, has fired, and the
\* login of the second call is listening with its own timer running
C32_Witness ==
    /\ call[1] = "returned"
    /\ timer[1] = "fired"
    /\ listener[1] = "closed"
    /\ currentAccount # NoAccount
    /\ call[2] = "login"
    /\ listener[2] = "listening"
    /\ timer[2] = "armed"

====
